---------------------------- MODULE Spec2Model ----------------------------
(***************************************************************************)
(* A model of DGSLEffectFactory (Src/DGSLEffectFactory.cpp): the factory   *)
(* that builds effects, textures and pixel shaders for a Direct3D device   *)
(* and caches them by name in a per-device Impl.                           *)
(*                                                                         *)
(* Strings are sequences of one-character strings, NULL is the null        *)
(* pointer.  Objects (effects, shader resource views, pixel shaders) are   *)
(* numbered in creation order; objs[o] holds the reference count of o.     *)
(* Every top-level call of a thread runs as a sequence of steps (pc), one  *)
(* step per access to shared state, so that calls of several threads       *)
(* interleave as the code allows.                                          *)
(***************************************************************************)
EXTENDS Integers, Sequences, FiniteSets, TLC

(***************************************************************************)
(* Bounds of the model.                                                    *)
(***************************************************************************)
\* the objects (effects, textures, shaders) created in one run of
\* sequential use, of two factories, of the shader name table, of two
\* threads, and of sequential use with the loader calls counted; MaxCount is
\* where the count of the calls of a loader stops
SeqObjs == 3
PoolObjs == 2
TableObjs == 4
ConcObjs == 2
LoadObjs == 3
MaxCount == 2
FairObjs == 3

(***************************************************************************)
(* Program constants.                                                      *)
(***************************************************************************)
\* <windows.h> MAX_PATH, the size of root[] in CreateDGSLEffect
MAX_PATH == 260
\* <stdlib.h> _MAX_EXT, the size of ext[] in CreateTexture
MAX_EXT == 256
\* the number of additional texture slots of a DGSLEffectInfo
NumTextures == 7

\* the null pointer to a string: a value no string of the model equals
NULL == <<"(null)">>
Threads == {"t1", "t2"}
NoThread == "none"
NoDevice == "none"
Factories == {"f1", "f2"}
Devices == {"dev9", "dev11"}
ImplIds == {1, 2}

\* D3D_FEATURE_LEVEL values, in units of 0x100 (0x9300 and 0xb000); 10_0 is 0xa000
D3D_FEATURE_LEVEL_10_0 == 160
GetFeatureLevel(d) == IF d = "dev9" THEN 147 ELSE 176

(***************************************************************************)
(* C strings.                                                              *)
(***************************************************************************)
UpperCase == <<"A","B","C","D","E","F","G","H","I","J","K","L","M",
               "N","O","P","Q","R","S","T","U","V","W","X","Y","Z">>
LowerCase == <<"a","b","c","d","e","f","g","h","i","j","k","l","m",
               "n","o","p","q","r","s","t","u","v","w","x","y","z">>

towlower(c) ==
    IF \E i \in 1..26 : UpperCase[i] = c
    THEN LowerCase[CHOOSE i \in 1..26 : UpperCase[i] = c]
    ELSE c

\* _wcsicmp: 0 when the strings are equal ignoring case, non-zero otherwise
wcsicmp(a, b) ==
    IF Len(a) = Len(b) /\ \A i \in 1..Len(a) : towlower(a[i]) = towlower(b[i])
    THEN 0 ELSE 1

\* wcsrchr: the index of the last c in s, 0 (null) when there is none
wcsrchr(s, c) ==
    IF \E i \in 1..Len(s) : s[i] = c
    THEN CHOOSE i \in 1..Len(s) : s[i] = c /\ \A k \in (i+1)..Len(s) : s[k] # c
    ELSE 0

\* wcschr: the index of the first c in s, 0 (null) when there is none
wcschr(s, c) ==
    IF \E i \in 1..Len(s) : s[i] = c
    THEN CHOOSE i \in 1..Len(s) : s[i] = c /\ \A k \in 1..(i-1) : s[k] # c
    ELSE 0

\* the string that starts at index i of s (pointer arithmetic s + i - 1)
StrFrom(s, i) == SubSeq(s, i, Len(s))

\* wcscpy_s / wcscat_s into a buffer of `size` characters succeed when the
\* result and its terminator fit; otherwise the invalid parameter handler runs
FitsBuffer(s, size) == Len(s) < size

Str_lambert == <<"l","a","m","b","e","r","t">>
Str_phong   == <<"p","h","o","n","g">>
Str_unlit   == <<"u","n","l","i","t">>
Str_cso     == <<".","c","s","o">>
Str_dds     == <<".","d","d","s">>

(***************************************************************************)
(* CreateDGSLEffect's choice of the shader.                                *)
(***************************************************************************)
\* p && *p
NonEmpty(p) == p # NULL /\ Len(p) > 0

\* lines 152-165: the part of pixelShader after its last '_', up to its
\* first '.'
ShaderRoot(pixelShader) ==
    LET last == wcsrchr(pixelShader, "_")
        copied == IF last # 0 THEN StrFrom(pixelShader, last + 1) ELSE pixelShader
        first == wcschr(copied, ".")
    IN  IF first # 0 THEN SubSeq(copied, 1, first - 1) ELSE copied

\* what wcscpy_s copies into root[ MAX_PATH ] at lines 153-161
RootSource(pixelShader) ==
    LET last == wcsrchr(pixelShader, "_")
    IN  IF last # 0 THEN StrFrom(pixelShader, last + 1) ELSE pixelShader

\* a variant that always allows the specular colour
Variant_Specular(kind, shader, lighting, allowSpecular) ==
    [kind |-> kind, shader |-> shader, lighting |-> lighting, allowSpecular |-> TRUE]

Variant(kind, shader, lighting, allowSpecular) ==
    [kind |-> kind, shader |-> shader, lighting |-> lighting,
     allowSpecular |-> allowSpecular]

\* lines 143-199: how the effect is made for info.pixelShader on a device of
\* the given feature level: "default" without a pixel shader of its own,
\* "custom" with the one CreatePixelShader gives for `shader`, "abort" when
\* a string does not fit root[] and the invalid parameter handler runs
DGSLVariant(pixelShader, featureLevel) ==
    IF ~NonEmpty(pixelShader) THEN Variant("default", NULL, TRUE, TRUE)
    ELSE IF ~FitsBuffer(RootSource(pixelShader), MAX_PATH)
         THEN Variant("abort", NULL, TRUE, TRUE)
    ELSE LET root == ShaderRoot(pixelShader) IN
         IF wcsicmp(root, Str_lambert) = 0 THEN Variant("default", NULL, TRUE, FALSE)
         ELSE IF wcsicmp(root, Str_phong) = 0 THEN Variant("default", NULL, TRUE, TRUE)
         ELSE IF wcsicmp(root, Str_unlit) = 0 THEN Variant("default", NULL, FALSE, TRUE)
         ELSE IF featureLevel < D3D_FEATURE_LEVEL_10_0
              THEN IF FitsBuffer(root \o Str_cso, MAX_PATH)
                   THEN Variant("custom", root \o Str_cso, TRUE, TRUE)
                   ELSE Variant("abort", NULL, TRUE, TRUE)
         ELSE Variant("custom", pixelShader, TRUE, TRUE)

(***************************************************************************)
(* The state.                                                              *)
(***************************************************************************)
VARIABLES
    \* DGSLEffectFactory::pImpl of each factory, 0 while it is not constructed
    pImpl,
    \* Impl::instancePool: the live Impl of each device, 0 when there is none
    instancePool,
    \* per Impl: Impl::device (NoDevice while the Impl is not allocated), mSharing,
    \* the caches, and the thread that owns Impl::mutex
    device, mSharing, mEffectCache, mTextureCache, mShaderCache, mutex,
    \* the objects created so far, objs[o] for object o
    objs,
    \* per thread: the position in its call, the call and its arguments, the
    \* locals of the call, the caller's output variable, how the call ended,
    \* and what the call did so far
    pc, call, loc, out, result, log,
    \* the objects a run may create, and per thread those its call may still
    \* create
    capacity, quota,
    \* per device: the effect returned by the first sharing call for each name
    \* since the caches of the device were last emptied
    firstEffect,
    \* per Impl: the loaders called for a name, with sharing enabled, since
    \* its caches were last emptied or sharing was last disabled; kept only
    \* in the runs that record them
    tried, recording,
    \* the process ran into undefined behaviour and was terminated
    crashed

vars == <<pImpl, instancePool, device, mSharing, mEffectCache, mTextureCache,
          mShaderCache, mutex, objs, pc, call, loc, out, result, log, capacity,
          quota,
          firstEffect, tried, recording, crashed>>

implVars  == <<device, mSharing, mEffectCache, mTextureCache, mShaderCache>>
cacheVars == <<mEffectCache, mTextureCache, mShaderCache>>
histVars  == <<firstEffect, tried, recording>>
facVars   == <<pImpl, instancePool>>
callVars  == <<pc, call, loc, out, result, log, capacity, quota>>

(***************************************************************************)
(* Objects and reference counts.                                           *)
(***************************************************************************)
\* the record of a destroyed object; the handles the application still has
\* to it (held) are its own business
Freed(rec) == [rec EXCEPT !.kind = "freed", !.refs = 0, !.parts = <<>>]

\* a new object, owned by one reference
NewObj(os, kind) == Append(os, [kind |-> kind, refs |-> 1, held |-> 0, parts |-> <<>>])

Alive(os, o) == o \in 1..Len(os) /\ os[o].refs > 0

\* an AddRef that counts nothing
AddRef_None(os, o) == os

\* AddRef, or the copy of a shared_ptr
AddRef(os, o) == [os EXCEPT ![o].refs = @ + 1]

\* Release of a texture or shader (an object that owns no other)
ReleaseLeaf(os, o) ==
    IF os[o].refs <= 1 THEN [os EXCEPT ![o] = Freed(@)]
    ELSE [os EXCEPT ![o].refs = @ - 1]

RECURSIVE ReleaseLeaves(_, _)
ReleaseLeaves(os, s) ==
    IF s = <<>> THEN os ELSE ReleaseLeaves(ReleaseLeaf(os, Head(s)), Tail(s))

\* Release, or the end of a shared_ptr: the last one destroys the object,
\* and a destroyed effect releases the shader and the textures it holds
Release(os, o) ==
    IF os[o].refs <= 1
    THEN ReleaseLeaves([os EXCEPT ![o] = Freed(@)], os[o].parts)
    ELSE [os EXCEPT ![o].refs = @ - 1]

RECURSIVE ReleaseAll(_, _)
ReleaseAll(os, s) ==
    IF s = <<>> THEN os ELSE ReleaseAll(Release(os, Head(s)), Tail(s))

\* the effect takes its own reference to the shader or texture it is given
HoldPart(os, e, o) == [AddRef(os, o) EXCEPT ![e].parts = Append(@, o)]

(***************************************************************************)
(* std::map.                                                               *)
(***************************************************************************)
EmptyMap == [k \in {} |-> 0]

\* a lookup that compares no key equal
Find_Miss(m, k) == 0

\* map::find: the node found, named by the object it holds; 0 is end()
Find(m, k) == IF k \in DOMAIN m THEN m[k] ELSE 0

\* map::insert: leaves the map alone when the key is there
Insert(m, k, v) ==
    IF k \in DOMAIN m THEN m
    ELSE [x \in DOMAIN m \cup {k} |-> IF x = k THEN v ELSE m[x]]

\* a clear that removes nothing
Clear_Keeps(m) == m

\* map::clear
Clear(m) == EmptyMap

\* the objects a map holds, in the order of its keys' enumeration
RECURSIVE SeqOfSet(_)
SeqOfSet(S) ==
    IF S = {} THEN <<>>
    ELSE LET x == CHOOSE y \in S : TRUE IN <<x>> \o SeqOfSet(S \ {x})

Values(m) == {m[k] : k \in DOMAIN m}

\* an iterator taken from m for key k still points into m
ValidIt(m, k, it) == it = 0 \/ (k \in DOMAIN m /\ m[k] = it)

(***************************************************************************)
(* Calls, their arguments and their locals.                                *)
(***************************************************************************)
NoTextures == [j \in 1..NumTextures |-> NULL]

\* IEffectFactory::EffectInfo and DGSLEffectInfo: the fields the factory reads
\* (a colour is given by its three components)
Info(name, pixelShader, texture, textures, specularColor, emissiveColor) ==
    [name |-> name, pixelShader |-> pixelShader, texture |-> texture,
     textures |-> textures, specularColor |-> specularColor,
     emissiveColor |-> emissiveColor]

Black == <<0, 0, 0>>
NoInfo == Info(NULL, NULL, NULL, NoTextures, Black, Black)

\* a thread outside any call
NoCall == [op |-> "none", f |-> "none", info |-> NoInfo, name |-> NULL,
           ctx |-> FALSE, outp |-> FALSE, enabled |-> FALSE]
NoLoc == [impl |-> 0, it |-> 0, effect |-> 0, j |-> 0, name |-> NULL,
          nit |-> 0, ret |-> "none", locked |-> FALSE, made |-> {},
          before |-> <<>>, shared |-> FALSE]
NoResult == [st |-> "none", obj |-> 0, what |-> ""]

Ev(ev, name, slot, obj) == [ev |-> ev, name |-> name, slot |-> slot, obj |-> obj]

\* the objects a call made through Impl i creates at most: none for an
\* effect that is cached, else one for the effect and one for each shader or
\* texture that is loaded, which with sharing is each name the cache does not
\* have
Loads(i, cache, names) ==
    IF mSharing[i]
    THEN Cardinality({k \in 1..Len(names) : NonEmpty(names[k])
                         /\ names[k] \notin DOMAIN cache
                         /\ \A m \in 1..(k-1) : names[m] # names[k]})
    ELSE Cardinality({k \in 1..Len(names) : NonEmpty(names[k])})

Need(i, c) ==
    CASE c.op \in {"CreateEffect", "CreateDGSLEffect"}
            /\ Loads(i, mEffectCache[i], <<c.info.name>>) = 0 /\ NonEmpty(c.info.name) -> 0
      [] c.op = "CreateEffect" -> 1 + Loads(i, mTextureCache[i], <<c.info.texture>>)
      [] c.op = "CreateDGSLEffect" ->
            LET v == DGSLVariant(c.info.pixelShader, GetFeatureLevel(device[i])) IN
            1 + (IF v.kind = "custom" THEN Loads(i, mShaderCache[i], <<v.shader>>) ELSE 0)
              + Loads(i, mTextureCache[i], <<c.info.texture>> \o c.info.textures)
      [] c.op = "CreateTexture" ->
            IF c.name = NULL \/ (mSharing[i] /\ c.name \in DOMAIN mTextureCache[i])
            THEN 0 ELSE 1
      [] c.op = "CreatePixelShader" ->
            IF c.name = NULL \/ (mSharing[i] /\ c.name \in DOMAIN mShaderCache[i])
            THEN 0 ELSE 1
      [] OTHER -> 0

RECURSIVE SumOver(_, _)
SumOver(f, S) ==
    IF S = {} THEN 0
    ELSE LET x == CHOOSE y \in S : TRUE IN f[x] + SumOver(f, S \ {x})

Caches(i) == <<mEffectCache[i], mTextureCache[i], mShaderCache[i]>>

\* a thread enters a call through factory f
Enter(t, f, c, first) ==
    /\ ~crashed
    /\ pc[t] = "idle"
    /\ pImpl[f] # 0
    /\ Len(objs) + SumOver(quota, Threads) + Need(pImpl[f], c) <= capacity
    /\ pc' = [pc EXCEPT ![t] = first]
    /\ call' = [call EXCEPT ![t] = c]
    /\ loc' = [loc EXCEPT ![t] = [NoLoc EXCEPT !.impl = pImpl[f],
                                              !.before = Caches(pImpl[f]),
                                              !.name = c.name, !.ret = "top",
                                              !.shared = mSharing[pImpl[f]]]]
    /\ quota' = [quota EXCEPT ![t] = Need(pImpl[f], c)]
    /\ UNCHANGED <<facVars, implVars, mutex, objs, out, result, log, capacity,
                   histVars, crashed>>

(***************************************************************************)
(* Factories: DGSLEffectFactory::DGSLEffectFactory and ~DGSLEffectFactory. *)
(***************************************************************************)
\* a pool that knows no device
DemandCreate_Forgets(d) == 0

\* SharedResourcePool::DemandCreate: the live Impl of the device, 0 when a
\* new one has to be allocated
DemandCreate(d) == instancePool[d]

FreeImpl == CHOOSE i \in ImplIds : device[i] = NoDevice /\ \A k \in ImplIds : device[k] = NoDevice => i <= k

Construct(f, d) ==
    /\ ~crashed
    /\ pImpl[f] = 0
    /\ IF DemandCreate(d) # 0
       THEN /\ pImpl' = [pImpl EXCEPT ![f] = DemandCreate(d)]
            /\ UNCHANGED <<instancePool, device, mSharing>>
       ELSE /\ pImpl' = [pImpl EXCEPT ![f] = FreeImpl]
            /\ instancePool' = [instancePool EXCEPT ![d] = FreeImpl]
            /\ device' = [device EXCEPT ![FreeImpl] = d]
            /\ mSharing' = [mSharing EXCEPT ![FreeImpl] = TRUE]
    /\ UNCHANGED <<cacheVars, mutex, objs, callVars, histVars, crashed>>

\* what the end of an Impl (or ReleaseCache) releases
CacheContents(i) ==
    SeqOfSet(Values(mEffectCache[i])) \o SeqOfSet(Values(mTextureCache[i]))
        \o SeqOfSet(Values(mShaderCache[i]))

Destroy(f) ==
    /\ ~crashed
    /\ pImpl[f] # 0
    /\ \A t \in Threads : call[t].f # f
    /\ pImpl' = [pImpl EXCEPT ![f] = 0]
    /\ LET i == pImpl[f] IN
       IF \E g \in Factories \ {f} : pImpl[g] = i
       THEN UNCHANGED <<instancePool, implVars, objs, histVars>>
       ELSE /\ instancePool' = [d \in Devices |->
                                   IF instancePool[d] = i THEN 0 ELSE instancePool[d]]
            /\ device' = [device EXCEPT ![i] = NoDevice]
            /\ mSharing' = [mSharing EXCEPT ![i] = TRUE]
            /\ mEffectCache' = [mEffectCache EXCEPT ![i] = Clear(@)]
            /\ mTextureCache' = [mTextureCache EXCEPT ![i] = Clear(@)]
            /\ mShaderCache' = [mShaderCache EXCEPT ![i] = Clear(@)]
            /\ objs' = ReleaseAll(objs, CacheContents(i))
            /\ firstEffect' = [firstEffect EXCEPT ![device[i]] = EmptyMap]
            /\ tried' = [tried EXCEPT ![i] = EmptyMap]
            /\ UNCHANGED recording
    /\ UNCHANGED <<mutex, callVars, crashed>>

(***************************************************************************)
(* What every step shares.                                                 *)
(***************************************************************************)
Impl(t) == loc[t].impl

\* the process is terminated
Crash ==
    /\ crashed' = TRUE
    /\ UNCHANGED <<facVars, implVars, mutex, objs, callVars, histVars>>

\* another thread is writing the cache `which` of Impl i: it is inside insert
\* or clear, so a find or an iterator comparison of thread t races with it
Racing(t, i, which) ==
    \E u \in Threads \ {t} :
        /\ loc[u].impl = i
        /\ \/ pc[u] = "rc_clear"
           \/ which = "effect" /\ pc[u] \in {"ce_insert", "cd_insert"}
           \/ which = "texture" /\ pc[u] = "ct_insert"
           \/ which = "shader" /\ pc[u] = "cp_insert"

\* what a read of the cache can do: its result, or (in a race) a crash
ReadOutcomes(t, i, which) ==
    IF Racing(t, i, which) THEN {"ok", "crash"} ELSE {"ok"}

\* what *it can do: the node's value, or with an iterator whose node was
\* erased the stale value or a crash
DerefOutcomes(t, m, k, it) ==
    IF ValidIt(m, k, it) THEN {"ok"} ELSE {"stale", "crash"}

Logged(t, evs) == log' = [log EXCEPT ![t] = @ \o evs]

\* the call of thread t ends with `what` thrown: the stack is unwound, which
\* ends the effect being built and unlocks the mutex a lock_guard holds
Throw(t, what) ==
    /\ pc' = [pc EXCEPT ![t] = "done"]
    /\ result' = [result EXCEPT ![t] = [st |-> "throw", obj |-> 0, what |-> what]]
    /\ objs' = IF loc[t].effect # 0 THEN Release(objs, loc[t].effect) ELSE objs
    /\ mutex' = IF loc[t].locked THEN [mutex EXCEPT ![Impl(t)] = NoThread] ELSE mutex
    /\ loc' = [loc EXCEPT ![t].effect = 0, ![t].locked = FALSE]

\* CreateEffect or CreateDGSLEffect returns effect e
ReturnEffect(t, e) ==
    /\ pc' = [pc EXCEPT ![t] = "done"]
    /\ result' = [result EXCEPT ![t] = [st |-> "ok", obj |-> e, what |-> ""]]

\* CreateTexture or CreatePixelShader returns, o being what it stored in *out:
\* to its caller in the factory, or to the application
ReturnOut(t, o) ==
    IF loc[t].ret = "top"
    THEN /\ pc' = [pc EXCEPT ![t] = "done"]
         /\ result' = [result EXCEPT ![t] = [st |-> "ok", obj |-> o, what |-> ""]]
    ELSE /\ pc' = [pc EXCEPT ![t] = loc[t].ret]
         /\ UNCHANGED result

\* a hit test that forgets the sharing switch
Hit_Always(sharing, it) == it # 0

\* a hit test that never sees the cached entry
Hit_Never(sharing, it) == FALSE

\* lines 77, 135, 274, 328: mSharing && it != cache.end()
Hit(sharing, it) == sharing /\ it # 0

\* an insertion test that forgets the name test
Shares_Unnamed(sharing, named, it) == sharing /\ it = 0

\* lines 119, 255, 311, 345: mSharing && <the name is not empty> && it == cache.end()
Shares(sharing, named, it) == sharing /\ named /\ it = 0

\* the colour has a non-zero component
NonZero(c) == c[1] # 0 \/ c[2] # 0 \/ c[3] # 0

(***************************************************************************)
(* DGSLEffectFactory::Impl::CreateEffect.                                  *)
(***************************************************************************)
CallCreateEffect(t, f, info, ctx) ==
    Enter(t, f, [NoCall EXCEPT !.op = "CreateEffect", !.f = f, !.info = info,
                               !.ctx = ctx], "ce_find")

\* line 75 (and 133): the lookup of info.name, made without the mutex
EffectFind(t, next) ==
    LET i == Impl(t)
        name == call[t].info.name
    IN  /\ ~crashed
        /\ IF NonEmpty(name)
           THEN \E oc \in ReadOutcomes(t, i, "effect") :
                   IF oc = "crash" THEN Crash
                   ELSE /\ loc' = [loc EXCEPT ![t].it = Find(mEffectCache[i], name)]
                        /\ pc' = [pc EXCEPT ![t] = next]
                        /\ Logged(t, <<Ev("find:effect", name, 0, 0)>>)
                        /\ UNCHANGED <<facVars, implVars, mutex, objs, call, out,
                                       result, capacity, quota, histVars, crashed>>
           ELSE /\ loc' = [loc EXCEPT ![t].it = 0]
                /\ pc' = [pc EXCEPT ![t] = next]
                /\ UNCHANGED <<facVars, implVars, mutex, objs, call, out, result,
                               log, capacity, quota, histVars, crashed>>

CE_find(t) == pc[t] = "ce_find" /\ EffectFind(t, "ce_test")

\* lines 77-80 (and 135-138): return it->second
EffectHit(t) ==
    LET i == Impl(t)
        it == loc[t].it
    IN  \E oc \in DerefOutcomes(t, mEffectCache[i], call[t].info.name, it) :
           IF oc = "crash" THEN Crash
           ELSE /\ objs' = IF Alive(objs, it) THEN AddRef(objs, it) ELSE objs
                /\ ReturnEffect(t, it)
                /\ UNCHANGED <<facVars, implVars, mutex, call, loc, out, log, capacity, quota,
                               histVars, crashed>>

\* the calls lines 85-107 make on the new effect
ConfigureEffect(info) ==
    <<Ev("EnableDefaultLighting", NULL, 0, 0), Ev("SetLightingEnabled", NULL, 0, 1),
      Ev("SetAmbientColor", NULL, 0, 0), Ev("SetDiffuseColor", NULL, 0, 0),
      Ev("SetAlpha", NULL, 0, 0)>>
    \o (IF NonZero(info.specularColor)
        THEN <<Ev("SetSpecularColor", NULL, 0, 0), Ev("SetSpecularPower", NULL, 0, 0)>>
        ELSE <<>>)
    \o (IF NonZero(info.emissiveColor)
        THEN <<Ev("SetEmissiveColor", NULL, 0, 0)>> ELSE <<>>)

\* factory->CreateTexture( name, deviceContext, srv.GetAddressOf() ), to come
\* back at `ret`
CallTexture(l, name, slot, ret) ==
    [l EXCEPT !.name = name, !.j = slot, !.nit = 0, !.ret = ret]

CE_test(t) ==
    /\ pc[t] = "ce_test"
    /\ ~crashed
    /\ LET i == Impl(t)
           info == call[t].info
           e == Len(objs) + 1
       IN  IF Hit(mSharing[i], loc[t].it)
           THEN EffectHit(t)
           ELSE /\ objs' = NewObj(objs, "effect")
                /\ quota' = [quota EXCEPT ![t] = @ - 1] /\ UNCHANGED capacity
                /\ IF NonEmpty(info.texture)
                   THEN /\ loc' = [loc EXCEPT ![t] =
                                     [CallTexture(@, info.texture, 0, "ce_settex")
                                         EXCEPT !.effect = e, !.made = @ \cup {e}]]
                        /\ pc' = [pc EXCEPT ![t] = "ct_args"]
                        /\ Logged(t, <<Ev("make_shared<DGSLEffect>", NULL, 0, e)>>
                                     \o ConfigureEffect(info)
                                     \o <<Ev("CreateTexture", info.texture, 0, 0)>>)
                   ELSE /\ loc' = [loc EXCEPT ![t].effect = e, ![t].made = @ \cup {e}]
                        /\ pc' = [pc EXCEPT ![t] = "ce_share"]
                        /\ Logged(t, <<Ev("make_shared<DGSLEffect>", NULL, 0, e)>>
                                     \o ConfigureEffect(info))
                /\ UNCHANGED <<facVars, implVars, mutex, call, out, result,
                               histVars, crashed>>

\* lines 115-116 (and 238-239, 250-251): the effect takes the texture, and
\* the ComPtr srv ends
EffectSetTexture(t, next) ==
    /\ ~crashed
    /\ objs' = ReleaseLeaf(HoldPart(objs, loc[t].effect, out[t]), out[t])
    /\ out' = [out EXCEPT ![t] = 0]
    /\ pc' = [pc EXCEPT ![t] = next]
    /\ Logged(t, <<Ev("SetTexture", NULL, loc[t].j, out[t]),
                   Ev("SetTextureEnabled", NULL, 0, 1)>>)
    /\ UNCHANGED <<facVars, implVars, mutex, call, loc, result, capacity, quota, histVars, crashed>>

CE_settex(t) == pc[t] = "ce_settex" /\ EffectSetTexture(t, "ce_share")

\* line 119 (and 255): whether the effect goes into the cache
EffectShare(t, lock) ==
    LET i == Impl(t)
        name == call[t].info.name
        it == loc[t].it
        compares == mSharing[i] /\ NonEmpty(name)
    IN  /\ ~crashed
        /\ \E oc \in (IF compares /\ (Racing(t, i, "effect")
                                        \/ ~ValidIt(mEffectCache[i], name, it))
                       THEN {"ok", "crash"} ELSE {"ok"}) :
              IF oc = "crash" THEN Crash
              ELSE /\ IF Shares(mSharing[i], NonEmpty(name), it)
                      THEN pc' = [pc EXCEPT ![t] = lock] /\ UNCHANGED result
                      ELSE ReturnEffect(t, loc[t].effect)
                   /\ UNCHANGED <<facVars, implVars, mutex, objs, call, loc, out, log,
                                  capacity, quota, histVars, crashed>>

CE_share(t) == pc[t] = "ce_share" /\ EffectShare(t, "ce_lock")

\* line 121 (and 257): std::lock_guard<std::mutex> lock(mutex)
Lock(t, next) ==
    /\ ~crashed
    /\ mutex[Impl(t)] = NoThread
    /\ mutex' = [mutex EXCEPT ![Impl(t)] = t]
    /\ pc' = [pc EXCEPT ![t] = next]
    /\ UNCHANGED <<facVars, implVars, objs, call, loc, out, result, log, capacity, quota,
                   histVars, crashed>>

CE_lock(t) == pc[t] = "ce_lock" /\ Lock(t, "ce_insert")

\* lines 122-125 (and 258-261): the insert, the end of the lock, the return
EffectInsert(t) ==
    LET i == Impl(t)
        name == call[t].info.name
        e == loc[t].effect
    IN  /\ ~crashed
        /\ mEffectCache' = [mEffectCache EXCEPT ![i] = Insert(@, name, e)]
        /\ objs' = IF name \in DOMAIN mEffectCache[i] THEN objs ELSE AddRef(objs, e)
        /\ mutex' = [mutex EXCEPT ![i] = NoThread]
        /\ ReturnEffect(t, e)
        /\ Logged(t, <<Ev("insert:effect", name, 0, e)>>)
        /\ UNCHANGED <<facVars, device, mSharing, mTextureCache, mShaderCache, call,
                       loc, out, capacity, quota, histVars, crashed>>

CE_insert(t) == pc[t] = "ce_insert" /\ EffectInsert(t)

(***************************************************************************)
(* DGSLEffectFactory::Impl::CreateTexture.                                 *)
(***************************************************************************)
\* _wsplitpath_s( name, ..., ext, _MAX_EXT ): the extension of the last path
\* component with its dot, empty when it has none or does not fit ext[]
PathSeparators == {"/", "\\"}

SplitExt(name) ==
    LET seps == {k \in 1..Len(name) : name[k] \in PathSeparators}
        start == IF seps = {} THEN 1
                 ELSE (CHOOSE k \in seps : \A m \in seps : m <= k) + 1
        base == StrFrom(name, start)
        dot == wcsrchr(base, ".")
        ext == IF dot = 0 THEN <<>> ELSE StrFrom(base, dot)
    IN  IF FitsBuffer(ext, MAX_EXT) THEN ext ELSE <<>>

CallCreateTexture(t, f, name, ctx, outp) ==
    Enter(t, f, [NoCall EXCEPT !.op = "CreateTexture", !.f = f, !.name = name,
                               !.ctx = ctx, !.outp = outp], "ct_args")

\* the out pointer of the call in progress is not null
OutPtr(t) == IF loc[t].ret = "top" THEN call[t].outp ELSE TRUE

\* an argument test that forgets the output pointer
InvalidArgs_NameOnly(name, outp) == name = NULL

\* lines 269 and 323: !name || !textureView
InvalidArgs(name, outp) == name = NULL \/ ~outp

\* lines 269-270 (and 323-324)
CheckArgs(t, next) ==
    /\ ~crashed
    /\ IF InvalidArgs(loc[t].name, OutPtr(t))
       THEN /\ Throw(t, "invalid arguments")
            /\ UNCHANGED <<facVars, implVars, call, out, log, capacity, quota, histVars, crashed>>
       ELSE /\ pc' = [pc EXCEPT ![t] = next]
            /\ UNCHANGED <<facVars, implVars, mutex, objs, call, loc, out, result,
                           log, capacity, quota, histVars, crashed>>

CT_args(t) == pc[t] = "ct_args" /\ CheckArgs(t, "ct_find")

\* line 272 (and 326): the lookup, made without the mutex
LeafFind(t, which, ev, m, next) ==
    /\ ~crashed
    /\ \E oc \in ReadOutcomes(t, Impl(t), which) :
          IF oc = "crash" THEN Crash
          ELSE /\ loc' = [loc EXCEPT ![t].nit = Find(m, loc[t].name)]
               /\ pc' = [pc EXCEPT ![t] = next]
               /\ Logged(t, <<Ev(ev, loc[t].name, 0, 0)>>)
               /\ UNCHANGED <<facVars, implVars, mutex, objs, call, out, result,
                              capacity, quota, histVars, crashed>>

CT_find(t) ==
    pc[t] = "ct_find" /\ LeafFind(t, "texture", "find:texture", mTextureCache[Impl(t)], "ct_test")

\* lines 276-278 (and 330-332): AddRef and *out = the cached object
LeafHit(t, m) ==
    LET it == loc[t].nit IN
    \E oc \in DerefOutcomes(t, m, loc[t].name, it) :
       IF oc = "crash" THEN Crash
       ELSE /\ objs' = IF Alive(objs, it) THEN AddRef(objs, it) ELSE objs
            /\ out' = [out EXCEPT ![t] = it]
            /\ ReturnOut(t, it)
            /\ UNCHANGED <<facVars, implVars, mutex, call, loc, log, capacity, quota,
                           histVars, crashed>>

\* lines 274-304: a hit, or the choice of the loader
CT_test(t) ==
    /\ pc[t] = "ct_test"
    /\ ~crashed
    /\ LET i == Impl(t)
           name == loc[t].name
           ctx == call[t].ctx
       IN  IF Hit(mSharing[i], loc[t].nit)
           THEN LeafHit(t, mTextureCache[i])
           ELSE /\ pc' = [pc EXCEPT ![t] =
                            IF wcsicmp(SplitExt(name), Str_dds) = 0 THEN "ct_dds"
                            ELSE IF ctx THEN "ct_wiclock" ELSE "ct_wic"]
                /\ UNCHANGED <<facVars, implVars, mutex, objs, call, loc, out, result,
                               log, capacity, quota, histVars, crashed>>

\* a loader is called for Impl i, and makes an object or not: how often the
\* loader was called for the name and how often it made one, counted up to
\* MaxCount
Counted(n) == IF n < MaxCount THEN n + 1 ELSE MaxCount
Record(h, i, key, made) ==
    LET old == IF key \in DOMAIN h[i] THEN h[i][key] ELSE [calls |-> 0, made |-> 0]
        new == [calls |-> Counted(old.calls),
                made |-> IF made THEN Counted(old.made) ELSE old.made]
    IN  IF recording /\ mSharing[i]
        THEN [h EXCEPT ![i] = [k \in DOMAIN @ \cup {key} |->
                                  IF k = key THEN new ELSE @[k]]]
        ELSE h

\* a check of the HRESULT that lets every failure pass
ThrowIfFailed_Never(ok) == FALSE

\* ThrowIfFailed( hr ): whether it throws, ok being SUCCEEDED( hr )
ThrowIfFailed(ok) == ~ok

\* ThrowIfFailed( loader(...) ): the loader fails and the call throws, or it
\* stores a new object in *out; a lock_guard around it ends either way
Load(t, kind, loader, ok, next) ==
    LET i == Impl(t)
        o == Len(objs) + 1
        key == <<loader, loc[t].name>>
    IN  /\ ~crashed
        /\ tried' = Record(tried, i, key, ok)
        /\ Logged(t, <<Ev(loader, loc[t].name, 0, IF ok THEN o ELSE 0)>>)
        /\ IF ~ThrowIfFailed(ok)
           THEN /\ objs' = NewObj(objs, kind)
                /\ out' = [out EXCEPT ![t] = o]
                /\ quota' = [quota EXCEPT ![t] = @ - 1] /\ UNCHANGED capacity
                /\ mutex' = IF loc[t].locked THEN [mutex EXCEPT ![i] = NoThread]
                            ELSE mutex
                /\ loc' = [loc EXCEPT ![t].locked = FALSE, ![t].made = @ \cup {o}]
                /\ pc' = [pc EXCEPT ![t] = next]
                /\ UNCHANGED result
           ELSE /\ Throw(t, "HRESULT")
                /\ UNCHANGED <<out, capacity, quota>>
        /\ UNCHANGED <<facVars, implVars, call, firstEffect, recording, crashed>>

\* lines 288-290
CT_dds(t) ==
    /\ pc[t] = "ct_dds"
    /\ \E ok \in BOOLEAN : Load(t, "texture", "CreateDDSTextureFromFile", ok, "ct_share")

\* line 294
CT_wiclock(t) ==
    /\ pc[t] = "ct_wiclock"
    /\ ~crashed
    /\ mutex[Impl(t)] = NoThread
    /\ mutex' = [mutex EXCEPT ![Impl(t)] = t]
    /\ loc' = [loc EXCEPT ![t].locked = TRUE]
    /\ pc' = [pc EXCEPT ![t] = "ct_wicctx"]
    /\ UNCHANGED <<facVars, implVars, objs, call, out, result, log, capacity, quota,
                   histVars, crashed>>

\* lines 295-298
CT_wicctx(t) ==
    /\ pc[t] = "ct_wicctx"
    /\ \E ok \in BOOLEAN : Load(t, "texture", "CreateWICTextureFromFile", ok, "ct_share")

\* lines 301-303
CT_wic(t) ==
    /\ pc[t] = "ct_wic"
    /\ \E ok \in BOOLEAN : Load(t, "texture", "CreateWICTextureFromFile", ok, "ct_share")

\* line 311 (and 345): whether the new object goes into the cache
LeafShare(t, which, m, lock) ==
    LET i == Impl(t)
        name == loc[t].name
        it == loc[t].nit
        compares == mSharing[i] /\ Len(name) > 0
    IN  /\ ~crashed
        /\ \E oc \in (IF compares /\ (Racing(t, i, which) \/ ~ValidIt(m, name, it))
                       THEN {"ok", "crash"} ELSE {"ok"}) :
              IF oc = "crash" THEN Crash
              ELSE /\ IF Shares(mSharing[i], Len(name) > 0, it)
                      THEN pc' = [pc EXCEPT ![t] = lock] /\ UNCHANGED result
                      ELSE ReturnOut(t, out[t])
                   /\ UNCHANGED <<facVars, implVars, mutex, objs, call, loc, out, log,
                                  capacity, quota, histVars, crashed>>

CT_share(t) ==
    pc[t] = "ct_share" /\ LeafShare(t, "texture", mTextureCache[Impl(t)], "ct_lock")

\* line 313
CT_lock(t) == pc[t] = "ct_lock" /\ Lock(t, "ct_insert")

\* lines 314-315: the insert (the map's ComPtr takes a reference), the end of
\* the lock, the return
CT_insert(t) ==
    LET i == Impl(t)
        name == loc[t].name
        o == out[t]
    IN  /\ pc[t] = "ct_insert"
        /\ ~crashed
        /\ mTextureCache' = [mTextureCache EXCEPT ![i] = Insert(@, name, o)]
        /\ objs' = IF name \in DOMAIN mTextureCache[i] THEN objs ELSE AddRef(objs, o)
        /\ mutex' = [mutex EXCEPT ![i] = NoThread]
        /\ ReturnOut(t, o)
        /\ Logged(t, <<Ev("insert:texture", name, 0, o)>>)
        /\ UNCHANGED <<facVars, device, mSharing, mEffectCache, mShaderCache, call,
                       loc, out, capacity, quota, histVars, crashed>>

(***************************************************************************)
(* DGSLEffectFactory::Impl::CreatePixelShader.                             *)
(***************************************************************************)
CallCreatePixelShader(t, f, name, outp) ==
    Enter(t, f, [NoCall EXCEPT !.op = "CreatePixelShader", !.f = f, !.name = name,
                               !.outp = outp], "cp_args")

CP_args(t) == pc[t] = "cp_args" /\ CheckArgs(t, "cp_find")

CP_find(t) ==
    pc[t] = "cp_find" /\ LeafFind(t, "shader", "find:shader", mShaderCache[Impl(t)], "cp_test")

\* lines 328-333: a hit, or on to the load
CP_test(t) ==
    /\ pc[t] = "cp_test"
    /\ ~crashed
    /\ LET i == Impl(t) IN
       IF Hit(mSharing[i], loc[t].nit)
       THEN LeafHit(t, mShaderCache[i])
       ELSE /\ pc' = [pc EXCEPT ![t] = "cp_read"]
            /\ UNCHANGED <<facVars, implVars, mutex, objs, call, loc, out, result,
                           log, capacity, quota, histVars, crashed>>

\* lines 336-340: BinaryReader::ReadEntireFile, which may fail
CP_read(t) ==
    /\ pc[t] = "cp_read"
    /\ ~crashed
    /\ \E ok \in BOOLEAN :
          /\ tried' = Record(tried, Impl(t), <<"ReadEntireFile", loc[t].name>>, FALSE)
          /\ Logged(t, <<Ev("ReadEntireFile", loc[t].name, 0, IF ok THEN 1 ELSE 0)>>)
          /\ IF ~ThrowIfFailed(ok)
             THEN /\ pc' = [pc EXCEPT ![t] = "cp_create"]
                  /\ UNCHANGED <<mutex, objs, loc, result>>
             ELSE Throw(t, "HRESULT")
          /\ UNCHANGED <<facVars, implVars, call, out, capacity, quota, firstEffect,
                         recording, crashed>>

\* lines 342-343: device->CreatePixelShader
CP_create(t) ==
    /\ pc[t] = "cp_create"
    /\ \E ok \in BOOLEAN : Load(t, "shader", "device.CreatePixelShader", ok, "cp_share")

CP_share(t) ==
    pc[t] = "cp_share" /\ LeafShare(t, "shader", mShaderCache[Impl(t)], "cp_lock")

\* line 347
CP_lock(t) == pc[t] = "cp_lock" /\ Lock(t, "cp_insert")

\* lines 348-349
CP_insert(t) ==
    LET i == Impl(t)
        name == loc[t].name
        o == out[t]
    IN  /\ pc[t] = "cp_insert"
        /\ ~crashed
        /\ mShaderCache' = [mShaderCache EXCEPT ![i] = Insert(@, name, o)]
        /\ objs' = IF name \in DOMAIN mShaderCache[i] THEN objs ELSE AddRef(objs, o)
        /\ mutex' = [mutex EXCEPT ![i] = NoThread]
        /\ ReturnOut(t, o)
        /\ Logged(t, <<Ev("insert:shader", name, 0, o)>>)
        /\ UNCHANGED <<facVars, device, mSharing, mEffectCache, mTextureCache, call,
                       loc, out, capacity, quota, histVars, crashed>>

(***************************************************************************)
(* DGSLEffectFactory::Impl::ReleaseCache and SetSharing.                   *)
(***************************************************************************)
\* the calls in progress on Impl i no longer run with sharing enabled and
\* the caches kept throughout
Unshared(i) ==
    [u \in Threads |-> IF loc[u].impl = i THEN [loc[u] EXCEPT !.shared = FALSE] ELSE loc[u]]

CallReleaseCache(t, f) ==
    Enter(t, f, [NoCall EXCEPT !.op = "ReleaseCache", !.f = f], "rc_lock")

\* line 356
RC_lock(t) == pc[t] = "rc_lock" /\ Lock(t, "rc_clear")

\* lines 357-360: the three clears, each entry releasing its object, and
\* the end of the lock
RC_clear(t) ==
    LET i == Impl(t) IN
    /\ pc[t] = "rc_clear"
    /\ ~crashed
    /\ mEffectCache' = [mEffectCache EXCEPT ![i] = Clear(@)]
    /\ mTextureCache' = [mTextureCache EXCEPT ![i] = Clear(@)]
    /\ mShaderCache' = [mShaderCache EXCEPT ![i] = Clear(@)]
    /\ objs' = ReleaseAll(objs, CacheContents(i))
    /\ mutex' = [mutex EXCEPT ![i] = NoThread]
    /\ pc' = [pc EXCEPT ![t] = "done"]
    /\ result' = [result EXCEPT ![t] = [st |-> "ok", obj |-> 0, what |-> ""]]
    /\ Logged(t, <<Ev("clear", NULL, 0, 0)>>)
    /\ firstEffect' = [firstEffect EXCEPT ![device[i]] = EmptyMap]
    /\ tried' = [tried EXCEPT ![i] = EmptyMap]
    /\ loc' = Unshared(i)
    /\ UNCHANGED <<facVars, device, mSharing, call, out, capacity, quota, recording,
                   crashed>>

\* line 48: mSharing = enabled, written without the mutex
SetSharing(t, f, enabled) ==
    /\ ~crashed
    /\ pc[t] = "idle"
    /\ pImpl[f] # 0
    /\ LET i == pImpl[f] IN
       /\ mSharing' = [mSharing EXCEPT ![i] = enabled]
       /\ tried' = IF enabled THEN tried ELSE [tried EXCEPT ![i] = EmptyMap]
       /\ loc' = IF enabled THEN loc ELSE Unshared(i)
    /\ UNCHANGED <<facVars, device, cacheVars, mutex, objs, pc, call, out, result, log,
                   capacity, quota, firstEffect, recording, crashed>>

(***************************************************************************)
(* DGSLEffectFactory::Impl::CreateDGSLEffect.                              *)
(***************************************************************************)
\* the calls lines 201-230 make on the new effect
ConfigureDGSLEffect(info, v) ==
    (IF v.lighting
     THEN <<Ev("EnableDefaultLighting", NULL, 0, 0), Ev("SetLightingEnabled", NULL, 0, 1)>>
     ELSE <<>>)
    \o <<Ev("SetAmbientColor", NULL, 0, 0), Ev("SetDiffuseColor", NULL, 0, 0),
         Ev("SetAlpha", NULL, 0, 0)>>
    \o (IF v.allowSpecular /\ NonZero(info.specularColor)
        THEN <<Ev("SetSpecularColor", NULL, 0, 0), Ev("SetSpecularPower", NULL, 0, 0)>>
        ELSE <<Ev("DisableSpecular", NULL, 0, 0)>>)
    \o (IF NonZero(info.emissiveColor)
        THEN <<Ev("SetEmissiveColor", NULL, 0, 0)>> ELSE <<>>)

CallCreateDGSLEffect(t, f, info, ctx) ==
    Enter(t, f, [NoCall EXCEPT !.op = "CreateDGSLEffect", !.f = f, !.info = info,
                               !.ctx = ctx], "cd_find")

CD_find(t) == pc[t] = "cd_find" /\ EffectFind(t, "cd_test")

\* lines 135-199: a hit, or the effect without a shader of its own (and its
\* settings, lines 201-230), or the call of CreatePixelShader
CD_test(t) ==
    /\ pc[t] = "cd_test"
    /\ ~crashed
    /\ LET i == Impl(t)
           info == call[t].info
           v == DGSLVariant(info.pixelShader, GetFeatureLevel(device[i]))
           e == Len(objs) + 1
       IN  IF Hit(mSharing[i], loc[t].it) THEN EffectHit(t)
           ELSE IF v.kind = "abort" THEN Crash
           ELSE IF v.kind = "default"
           THEN /\ objs' = NewObj(objs, "effect")
                /\ quota' = [quota EXCEPT ![t] = @ - 1] /\ UNCHANGED capacity
                /\ loc' = [loc EXCEPT ![t].effect = e, ![t].made = @ \cup {e}]
                /\ pc' = [pc EXCEPT ![t] = "cd_tex"]
                /\ Logged(t, <<Ev("make_shared<DGSLEffect>", NULL, 0, e)>>
                             \o ConfigureDGSLEffect(info, v))
                /\ UNCHANGED <<facVars, implVars, mutex, call, out, result,
                               histVars, crashed>>
           ELSE /\ loc' = [loc EXCEPT ![t] = [@ EXCEPT !.name = v.shader, !.nit = 0,
                                                       !.ret = "cd_make"]]
                /\ pc' = [pc EXCEPT ![t] = "cp_args"]
                /\ Logged(t, <<Ev("CreatePixelShader", v.shader, 0, 0)>>)
                /\ UNCHANGED <<facVars, implVars, mutex, objs, call, out, result,
                               capacity, quota, histVars, crashed>>

\* lines 189 and 197, then 201-230: the effect with the pixel shader ps; the
\* effect takes its reference to it and the ComPtr ps ends
CD_make(t) ==
    /\ pc[t] = "cd_make"
    /\ ~crashed
    /\ LET i == Impl(t)
           info == call[t].info
           v == DGSLVariant(info.pixelShader, GetFeatureLevel(device[i]))
           e == Len(objs) + 1
       IN  /\ objs' = ReleaseLeaf(HoldPart(NewObj(objs, "effect"), e, out[t]), out[t])
           /\ quota' = [quota EXCEPT ![t] = @ - 1] /\ UNCHANGED capacity
           /\ out' = [out EXCEPT ![t] = 0]
           /\ loc' = [loc EXCEPT ![t].effect = e, ![t].made = @ \cup {e}]
           /\ pc' = [pc EXCEPT ![t] = "cd_tex"]
           /\ Logged(t, <<Ev("make_shared<DGSLEffect>", NULL, out[t], e)>>
                        \o ConfigureDGSLEffect(info, v))
    /\ UNCHANGED <<facVars, implVars, mutex, call, result, histVars, crashed>>

\* a loop that reads info.texture for every slot
SlotName_First(info, s) == info.texture

\* texture slot s of the effect: info.texture for 0, info.textures[s-1] after
SlotName(info, s) == IF s = 0 THEN info.texture ELSE info.textures[s]

\* lines 232-236 and 242-248: the next slot after `from` with a texture
\* name that is not empty gets its CreateTexture call; line 255 when there
\* is none
NextTexture(t, from) ==
    LET info == call[t].info
        left == {s \in from..NumTextures : NonEmpty(SlotName(info, s))}
    IN  /\ ~crashed
        /\ IF left = {}
           THEN /\ pc' = [pc EXCEPT ![t] = "cd_share"]
                /\ UNCHANGED <<loc, log>>
           ELSE LET s == CHOOSE x \in left : \A y \in left : x <= y IN
                /\ loc' = [loc EXCEPT ![t] = CallTexture(@, SlotName(info, s), s, "cd_settex")]
                /\ pc' = [pc EXCEPT ![t] = "ct_args"]
                /\ Logged(t, <<Ev("CreateTexture", SlotName(info, s), s, 0)>>)
        /\ UNCHANGED <<facVars, implVars, mutex, objs, call, out, result, capacity, quota,
                       histVars, crashed>>

CD_tex(t) == pc[t] = "cd_tex" /\ NextTexture(t, 0)

\* lines 238-239 and 250-251
CD_settex(t) == pc[t] = "cd_settex" /\ EffectSetTexture(t, "cd_loop")

CD_loop(t) == pc[t] = "cd_loop" /\ NextTexture(t, loc[t].j + 1)

CD_share(t) == pc[t] = "cd_share" /\ EffectShare(t, "cd_lock")

CD_lock(t) == pc[t] = "cd_lock" /\ Lock(t, "cd_insert")

CD_insert(t) == pc[t] = "cd_insert" /\ EffectInsert(t)

(***************************************************************************)
(* The application: what it does with a result, and with its handles.      *)
(***************************************************************************)
EffectOps == {"CreateEffect", "CreateDGSLEffect"}
CreateOps == EffectOps \cup {"CreateTexture", "CreatePixelShader"}

\* the application holds no handle
HoldsNone == \A o \in 1..Len(objs) : objs[o].held = 0

\* the call is over: the application keeps the object it was given (it holds
\* one handle at a time) or releases it at once
Finish(t, keep) ==
    LET r == result[t]
        i == Impl(t)
        name == call[t].info.name
        got == r.st = "ok" /\ r.obj # 0 /\ Alive(objs, r.obj)
    IN  /\ ~crashed
        /\ pc[t] = "done"
        /\ objs' = IF ~got THEN objs
                ELSE IF keep /\ HoldsNone
                     THEN [objs EXCEPT ![r.obj].held = @ + 1]
                     ELSE Release(objs, r.obj)
        /\ firstEffect' =
              IF /\ call[t].op \in EffectOps /\ r.st = "ok" /\ mSharing[i]
                 /\ NonEmpty(name) /\ name \notin DOMAIN firstEffect[device[i]]
              THEN [firstEffect EXCEPT ![device[i]] =
                        [x \in DOMAIN @ \cup {name} |->
                            IF x = name THEN [obj |-> r.obj, f |-> call[t].f] ELSE @[x]]]
              ELSE firstEffect
        /\ pc' = [pc EXCEPT ![t] = "idle"]
        /\ call' = [call EXCEPT ![t] = NoCall]
        /\ loc' = [loc EXCEPT ![t] = NoLoc]
        /\ out' = [out EXCEPT ![t] = 0]
        /\ result' = [result EXCEPT ![t] = NoResult]
        /\ log' = [log EXCEPT ![t] = <<>>]
        /\ quota' = [quota EXCEPT ![t] = 0] /\ UNCHANGED capacity
        /\ UNCHANGED <<facVars, implVars, mutex, tried, recording, crashed>>

\* the application releases a handle it holds
ReleaseHandle(o) ==
    /\ ~crashed
    /\ objs[o].held > 0
    /\ objs' = Release([objs EXCEPT ![o].held = @ - 1], o)
    /\ UNCHANGED <<facVars, implVars, mutex, callVars, histVars, crashed>>

(***************************************************************************)
(* The steps of a thread inside a call.                                    *)
(***************************************************************************)
Step(t) ==
    \/ CE_find(t) \/ CE_test(t) \/ CE_settex(t) \/ CE_share(t) \/ CE_lock(t)
    \/ CE_insert(t)
    \/ CD_find(t) \/ CD_test(t) \/ CD_make(t) \/ CD_tex(t) \/ CD_settex(t)
    \/ CD_loop(t) \/ CD_share(t) \/ CD_lock(t) \/ CD_insert(t)
    \/ CT_args(t) \/ CT_find(t) \/ CT_test(t) \/ CT_dds(t) \/ CT_wiclock(t)
    \/ CT_wicctx(t) \/ CT_wic(t) \/ CT_share(t) \/ CT_lock(t) \/ CT_insert(t)
    \/ CP_args(t) \/ CP_find(t) \/ CP_test(t) \/ CP_read(t) \/ CP_create(t)
    \/ CP_share(t)
    \/ CP_lock(t) \/ CP_insert(t)
    \/ RC_lock(t) \/ RC_clear(t)

(***************************************************************************)
(* The start: the state of every Impl and thread before any call.          *)
(***************************************************************************)
Rest ==
    /\ mSharing = [i \in ImplIds |-> TRUE]
    /\ mEffectCache = [i \in ImplIds |-> EmptyMap]
    /\ mTextureCache = [i \in ImplIds |-> EmptyMap]
    /\ mShaderCache = [i \in ImplIds |-> EmptyMap]
    /\ mutex = [i \in ImplIds |-> NoThread]
    /\ objs = <<>>
    /\ pc = [t \in Threads |-> "idle"]
    /\ call = [t \in Threads |-> NoCall]
    /\ loc = [t \in Threads |-> NoLoc]
    /\ out = [t \in Threads |-> 0]
    /\ result = [t \in Threads |-> NoResult]
    /\ log = [t \in Threads |-> <<>>]
    /\ quota = [t \in Threads |-> 0]
    /\ firstEffect = [d \in Devices |-> EmptyMap]
    /\ tried = [i \in ImplIds |-> EmptyMap]
    /\ crashed = FALSE

(***************************************************************************)
(* Sequential use: one thread and one factory.                             *)
(***************************************************************************)
Name_a == <<"a">>
Name_b == <<"b">>
Tex_dds == <<"t", ".", "d", "d", "s">>
Tex_png == <<"u", ".", "p", "n", "g">>
Shader_m == <<"m", ".", "c", "s", "o">>

SeqEffectInfos ==
    {Info(n, NULL, tx, NoTextures, Black, Black) :
        n \in {NULL, <<>>, Name_a}, tx \in {NULL, Tex_dds}}
SeqDGSLInfos ==
    {Info(Name_a, Str_lambert, NULL, NoTextures, Black, Black),
     Info(Name_b, Str_lambert, Tex_dds, NoTextures, Black, Black),
     Info(Name_b, Shader_m, NULL, NoTextures, Black, Black)}
\* name, deviceContext, textureView
SeqTextureArgs ==
    {<<NULL, FALSE, TRUE>>, <<Tex_dds, FALSE, FALSE>>, <<Tex_dds, FALSE, TRUE>>,
     <<Tex_png, TRUE, TRUE>>, <<Tex_png, FALSE, TRUE>>, <<<<>>, FALSE, TRUE>>}
\* name, pixelShader
SeqShaderArgs ==
    {<<NULL, TRUE>>, <<Shader_m, FALSE>>, <<Shader_m, TRUE>>, <<<<>>, TRUE>>}

InitSeq ==
    /\ capacity = SeqObjs
    /\ recording = FALSE
    /\ pImpl = [f \in Factories |-> IF f = "f1" THEN 1 ELSE 0]
    /\ instancePool = [d \in Devices |-> IF d = "dev11" THEN 1 ELSE 0]
    /\ device = [i \in ImplIds |-> IF i = 1 THEN "dev11" ELSE NoDevice]
    /\ Rest

SeqCalls(t, f) ==
    \/ \E info \in SeqEffectInfos : CallCreateEffect(t, f, info, FALSE)
    \/ \E info \in SeqDGSLInfos : CallCreateDGSLEffect(t, f, info, TRUE)
    \/ \E a \in SeqTextureArgs : CallCreateTexture(t, f, a[1], a[2], a[3])
    \/ \E a \in SeqShaderArgs : CallCreatePixelShader(t, f, a[1], a[2])
    \/ CallReleaseCache(t, f)
    \/ \E enabled \in BOOLEAN : SetSharing(t, f, enabled)

NextSeq ==
    \/ \E o \in 1..Len(objs) : ReleaseHandle(o)
    \/ SeqCalls("t1", "f1")
    \/ Step("t1")
    \/ \E keep \in BOOLEAN : Finish("t1", keep)

SpecSeq == InitSeq /\ [][NextSeq]_vars

(***************************************************************************)
(* Sequential use with sharing enabled throughout, the loader calls        *)
(* counted.                                                                *)
(***************************************************************************)
LoadEffectInfos == {Info(Name_a, NULL, Tex_dds, NoTextures, Black, Black)}
LoadDGSLInfos == {Info(Name_b, Shader_m, Tex_dds, NoTextures, Black, Black)}
LoadTextureArgs == {<<Tex_dds, FALSE>>, <<Tex_png, FALSE>>, <<Tex_png, TRUE>>}

InitLoads ==
    /\ capacity = LoadObjs
    /\ recording = TRUE
    /\ pImpl = [f \in Factories |-> IF f = "f1" THEN 1 ELSE 0]
    /\ instancePool = [d \in Devices |-> IF d = "dev9" THEN 1 ELSE 0]
    /\ device = [i \in ImplIds |-> IF i = 1 THEN "dev9" ELSE NoDevice]
    /\ Rest

LoadCalls(t, f) ==
    \/ \E info \in LoadEffectInfos : CallCreateEffect(t, f, info, FALSE)
    \/ \E info \in LoadDGSLInfos : CallCreateDGSLEffect(t, f, info, FALSE)
    \/ \E a \in LoadTextureArgs : CallCreateTexture(t, f, a[1], a[2], TRUE)
    \/ CallCreatePixelShader(t, f, Shader_m, TRUE)
    \/ CallReleaseCache(t, f)

NextLoads ==
    \/ LoadCalls("t1", "f1")
    \/ Step("t1")
    \/ Finish("t1", FALSE)

SpecLoads == InitLoads /\ [][NextLoads]_vars

(***************************************************************************)
(* Factories come and go on two devices; one thread calls through them.    *)
(***************************************************************************)
PoolEffectInfos == {Info(Name_a, NULL, Tex_dds, NoTextures, Black, Black)}

InitPool ==
    /\ capacity = PoolObjs
    /\ recording = FALSE
    /\ pImpl = [f \in Factories |-> 0]
    /\ instancePool = [d \in Devices |-> 0]
    /\ device = [i \in ImplIds |-> NoDevice]
    /\ Rest

PoolCalls(t, f) ==
    \/ \E info \in PoolEffectInfos : CallCreateEffect(t, f, info, FALSE)
    \/ CallCreateTexture(t, f, Tex_dds, FALSE, TRUE)
    \/ CallCreatePixelShader(t, f, Shader_m, TRUE)
    \/ CallReleaseCache(t, f)
    \/ \E enabled \in BOOLEAN : SetSharing(t, f, enabled)

PoolStep(t) ==
    \/ CE_find(t) \/ CE_test(t) \/ CE_settex(t) \/ CE_share(t) \/ CE_lock(t)
    \/ CE_insert(t)
    \/ CT_args(t) \/ CT_find(t) \/ CT_test(t) \/ CT_dds(t) \/ CT_share(t)
    \/ CT_lock(t) \/ CT_insert(t)
    \/ CP_args(t) \/ CP_find(t) \/ CP_test(t) \/ CP_read(t) \/ CP_create(t)
    \/ CP_share(t) \/ CP_lock(t) \/ CP_insert(t)
    \/ RC_lock(t) \/ RC_clear(t)

NextPool ==
    \/ \E f \in Factories, d \in Devices : Construct(f, d)
    \/ \E f \in Factories : Destroy(f)
    \/ \E f \in Factories : PoolCalls("t1", f)
    \/ PoolStep("t1")
    \/ Finish("t1", FALSE)

SpecPool == InitPool /\ [][NextPool]_vars

(***************************************************************************)
(* The shader names of CreateDGSLEffect, on a device of feature level 9.3  *)
(* and on one of 11.0.                                                     *)
(***************************************************************************)
\* "lambert." and as many x as make MAX_PATH characters
LongShader ==
    Str_lambert \o <<".">> \o [k \in 1..(MAX_PATH - Len(Str_lambert) - 1) |-> "x"]

TableShaders ==
    {NULL, <<>>, Str_lambert,
     <<"P","h","o","n","g",".","x">>,
     <<"x","_","U","N","L","I","T",".","c","s","o">>,
     <<"a","_","b",".","c","s","o">>,
     <<"a",".","b","_","c">>,
     <<"x","_">>,
     <<"l","a","m","b","e","r","t","_","x">>,
     <<"p",".","q",".","r">>,
     Shader_m,
     LongShader}
TableColors == {Black, <<0, 0, 1>>}
\* info.texture and info.textures[0..6]: one texture, two in the first and
\* the last of textures[], empty names only, and one name twice
TableTextures ==
    {<<Tex_dds, NoTextures>>,
     <<NULL, [NoTextures EXCEPT ![1] = Tex_png, ![NumTextures] = Tex_dds]>>,
     <<<<>>, [NoTextures EXCEPT ![3] = <<>>]>>,
     <<Tex_dds, [NoTextures EXCEPT ![2] = Tex_dds]>>}
TableInfos ==
    {Info(NULL, ps, NULL, NoTextures, sc, ec) :
        ps \in TableShaders, sc \in TableColors, ec \in TableColors}
    \cup {Info(NULL, NULL, tx[1], tx[2], Black, Black) : tx \in TableTextures}

InitTable ==
    /\ capacity = TableObjs
    /\ recording = FALSE
    /\ pImpl = [f \in Factories |-> IF f = "f1" THEN 1 ELSE 2]
    /\ instancePool = [d \in Devices |-> IF d = "dev9" THEN 1 ELSE 2]
    /\ device = [i \in ImplIds |-> IF i = 1 THEN "dev9" ELSE "dev11"]
    /\ Rest

TableStep(t) ==
    \/ CD_find(t) \/ CD_test(t) \/ CD_make(t) \/ CD_tex(t) \/ CD_settex(t)
    \/ CD_loop(t) \/ CD_share(t)
    \/ CT_args(t) \/ CT_find(t) \/ CT_test(t) \/ CT_dds(t) \/ CT_wic(t)
    \/ CT_share(t) \/ CT_lock(t) \/ CT_insert(t)
    \/ CP_args(t) \/ CP_find(t) \/ CP_test(t) \/ CP_read(t) \/ CP_create(t)
    \/ CP_share(t) \/ CP_lock(t) \/ CP_insert(t)

NextTable ==
    \/ \E f \in Factories, info \in TableInfos : CallCreateDGSLEffect("t1", f, info, FALSE)
    \/ TableStep("t1")
    \/ Finish("t1", FALSE)

SpecTable == InitTable /\ [][NextTable]_vars

(***************************************************************************)
(* Two threads call through one factory.                                   *)
(***************************************************************************)
ConcEffectInfos ==
    {Info(Name_a, NULL, tx, NoTextures, Black, Black) : tx \in {NULL, Tex_dds}}

Init ==
    /\ capacity = ConcObjs
    /\ recording = FALSE
    /\ pImpl = [f \in Factories |-> IF f = "f1" THEN 1 ELSE 0]
    /\ instancePool = [d \in Devices |-> IF d = "dev11" THEN 1 ELSE 0]
    /\ device = [i \in ImplIds |-> IF i = 1 THEN "dev11" ELSE NoDevice]
    /\ Rest

ConcCalls(t, f) ==
    \/ \E info \in ConcEffectInfos : CallCreateEffect(t, f, info, FALSE)
    \/ CallCreateTexture(t, f, Tex_dds, FALSE, TRUE)
    \/ CallCreatePixelShader(t, f, Shader_m, TRUE)
    \/ CallReleaseCache(t, f)

ConcStep(t) ==
    \/ CE_find(t) \/ CE_test(t) \/ CE_settex(t) \/ CE_share(t) \/ CE_lock(t)
    \/ CE_insert(t)
    \/ CT_args(t) \/ CT_find(t) \/ CT_test(t) \/ CT_dds(t) \/ CT_share(t)
    \/ CT_lock(t) \/ CT_insert(t)
    \/ CP_args(t) \/ CP_find(t) \/ CP_test(t) \/ CP_read(t) \/ CP_create(t)
    \/ CP_share(t) \/ CP_lock(t) \/ CP_insert(t)
    \/ RC_lock(t) \/ RC_clear(t)

Next ==
    \E t \in Threads :
        \/ ConcCalls(t, "f1")
        \/ ConcStep(t)
        \/ Finish(t, FALSE)

Spec == Init /\ [][Next]_vars

(***************************************************************************)
(* Two threads under a fair scheduler: every operation of the factory,     *)
(* with the nested calls and the locked WIC load.                          *)
(***************************************************************************)
FairEffectInfo == Info(Name_a, NULL, Tex_dds, NoTextures, Black, Black)
FairDGSLInfo ==
    Info(Name_a, Shader_m, NULL, [NoTextures EXCEPT ![1] = Tex_png], Black, Black)

InitFair ==
    /\ capacity = FairObjs
    /\ recording = FALSE
    /\ pImpl = [f \in Factories |-> IF f = "f1" THEN 1 ELSE 0]
    /\ instancePool = [d \in Devices |-> IF d = "dev11" THEN 1 ELSE 0]
    /\ device = [i \in ImplIds |-> IF i = 1 THEN "dev11" ELSE NoDevice]
    /\ Rest

\* the first thread builds effects and switches sharing, the second builds
\* effects and textures and releases the cache
FairCalls(t, f) ==
    \/ t = "t1" /\ CallCreateDGSLEffect(t, f, FairDGSLInfo, TRUE)
    \/ t = "t1" /\ \E enabled \in BOOLEAN : SetSharing(t, f, enabled)
    \/ t = "t2" /\ CallCreateEffect(t, f, FairEffectInfo, FALSE)
    \/ t = "t2" /\ CallCreateTexture(t, f, Tex_png, FALSE, TRUE)
    \/ t = "t2" /\ CallReleaseCache(t, f)

NextFair ==
    \E t \in Threads :
        \/ FairCalls(t, "f1")
        \/ Step(t)
        \/ Finish(t, FALSE)

\* the scheduler runs every thread that can take a step, and a thread that
\* waits for the mutex gets it when it is free again and again
SpecFair == InitFair /\ [][NextFair]_vars /\ \A t \in Threads : SF_vars(Step(t))

(***************************************************************************)
(* What the claims speak of.                                               *)
(***************************************************************************)
Done(t) == pc[t] = "done"
Returned(t) == pc[t] = "done" /\ result[t].st = "ok"
Threw(t) == pc[t] = "done" /\ result[t].st = "throw"

\* the name the call of thread t asks for, and the cache it is looked up
\* in, as it was when the call began
AskedName(t) == IF call[t].op \in EffectOps THEN call[t].info.name ELSE call[t].name
CacheIndex(t) ==
    CASE call[t].op \in EffectOps -> 1
      [] call[t].op = "CreateTexture" -> 2
      [] OTHER -> 3
CacheBefore(t) == loc[t].before[CacheIndex(t)]

\* the call of thread t returned an object it made itself
ReturnedNew(t) == Returned(t) /\ result[t].obj \in loc[t].made

\* the events of the call of thread t that are calls of a loader
LoaderEvents ==
    {"CreateDDSTextureFromFile", "CreateWICTextureFromFile", "ReadEntireFile",
     "device.CreatePixelShader"}
LoaderCalls(t) == {k \in 1..Len(log[t]) : log[t][k].ev \in LoaderEvents}

(***************************************************************************)
(* Sequential use of one factory.                                          *)
(***************************************************************************)
\* C1: in a sequential run, a CreateEffect or CreateDGSLEffect call that ran
\* with sharing enabled and asks for a name that is not empty returns the
\* effect that the first such call since the last ReleaseCache returned.
C1_SameEffectPerName ==
    \A t \in Threads :
        (/\ Returned(t) /\ call[t].op \in EffectOps /\ loc[t].shared
         /\ NonEmpty(AskedName(t))
         /\ AskedName(t) \in DOMAIN firstEffect[device[Impl(t)]])
        => result[t].obj = firstEffect[device[Impl(t)]][AskedName(t)].obj

\* CreateDGSLEffect returned the effect an earlier call made for the name
C1_Witness ==
    \E t \in Threads :
        /\ Returned(t) /\ call[t].op = "CreateDGSLEffect" /\ loc[t].shared
        /\ AskedName(t) = Name_a
        /\ AskedName(t) \in DOMAIN firstEffect[device[Impl(t)]]
        /\ result[t].obj \notin loc[t].made

\* C6: when ReleaseCache returns the three caches are empty; a Create call
\* returns an object it did not make only when the cache held it for the
\* name as the call began (so never one cached before a ReleaseCache); and
\* an object the application holds a handle to is alive.
C6_ReleaseCacheEmpties ==
    /\ \A t \in Threads :
          (Returned(t) /\ call[t].op = "ReleaseCache")
          => Caches(Impl(t)) = <<EmptyMap, EmptyMap, EmptyMap>>
    /\ \A t \in Threads :
          (Returned(t) /\ call[t].op \in CreateOps /\ ~ReturnedNew(t))
          => /\ AskedName(t) \in DOMAIN CacheBefore(t)
             /\ CacheBefore(t)[AskedName(t)] = result[t].obj
    /\ \A o \in 1..Len(objs) : objs[o].held > 0 => objs[o].refs > 0

\* ReleaseCache returned, and the application holds an object that was cached
C6_Witness ==
    \E t \in Threads :
        /\ Returned(t) /\ call[t].op = "ReleaseCache"
        /\ \E o \in 1..Len(objs) :
              /\ objs[o].held > 0
              /\ \E k \in 1..3 : o \in Values(loc[t].before[k])

\* C7: a Create call that runs while sharing is disabled leaves the three
\* caches as they were when it began, and the object it returns is one it
\* made.
C7_NoSharingNoCaching ==
    \A t \in Threads :
        (pc[t] # "idle" /\ call[t].op \in CreateOps /\ ~mSharing[Impl(t)])
        => /\ Caches(Impl(t)) = loc[t].before
           /\ Returned(t) => ReturnedNew(t)

\* with sharing disabled, a call for a cached name returned
C7_Witness ==
    \E t \in Threads :
        /\ Returned(t) /\ call[t].op \in CreateOps /\ ~mSharing[Impl(t)]
        /\ AskedName(t) \in DOMAIN CacheBefore(t)

\* C8: no cache has the empty string (or the null pointer) as a key, and a
\* Create call for a null or empty name returns an object it made.
C8_EmptyNameNeverCached ==
    /\ \A i \in ImplIds : \A k \in 1..3 :
          <<>> \notin DOMAIN Caches(i)[k] /\ NULL \notin DOMAIN Caches(i)[k]
    /\ \A t \in Threads :
          (Returned(t) /\ call[t].op \in CreateOps /\ ~NonEmpty(AskedName(t)))
          => ReturnedNew(t)

\* CreateTexture returned for the empty name, with sharing enabled
C8_Witness ==
    \E t \in Threads :
        /\ Returned(t) /\ call[t].op = "CreateTexture" /\ call[t].name = <<>>
        /\ loc[t].shared

\* C10: CreateTexture and CreatePixelShader called with a null name or a null
\* output pointer throw "invalid arguments" without a lookup or a loader
\* call, and leave the caches and the output as they were.
C10_InvalidArguments ==
    \A t \in Threads :
        (/\ Done(t) /\ call[t].op \in {"CreateTexture", "CreatePixelShader"}
         /\ (call[t].name = NULL \/ ~call[t].outp))
        => /\ result[t] = [st |-> "throw", obj |-> 0, what |-> "invalid arguments"]
           /\ log[t] = <<>>
           /\ Caches(Impl(t)) = loc[t].before
           /\ out[t] = 0
           /\ loc[t].made = {}

\* CreateTexture threw for a null output pointer and a name that is cached
C10_Witness ==
    \E t \in Threads :
        /\ Threw(t) /\ call[t].op = "CreateTexture" /\ ~call[t].outp
        /\ call[t].name \in DOMAIN mTextureCache[Impl(t)]

(***************************************************************************)
(* Loader calls.                                                           *)
(***************************************************************************)
\* the cache a loader's objects go to
LoaderCache(ev) ==
    IF ev \in {"CreateDDSTextureFromFile", "CreateWICTextureFromFile"} THEN 2 ELSE 3

\* C9 as stated: in a sequential run with sharing enabled throughout, no
\* loader is called more than once for a name that is not empty between two
\* ReleaseCache calls.
C9_LoaderCalledOnce ==
    \A i \in ImplIds : \A key \in DOMAIN tried[i] :
        NonEmpty(key[2]) => tried[i][key].calls <= 1

\* C9, amended: in a sequential run with sharing enabled throughout, no
\* loader makes more than one object for a name that is not empty between
\* two ReleaseCache calls, and a call (the calls CreateEffect and
\* CreateDGSLEffect make included) calls no loader for a name that was
\* cached when it began.
C9_LoaderMakesOnce ==
    /\ \A i \in ImplIds : \A key \in DOMAIN tried[i] :
          NonEmpty(key[2]) => tried[i][key].made <= 1
    /\ \A t \in Threads : \A k \in LoaderCalls(t) :
          NonEmpty(log[t][k].name)
          => log[t][k].name \notin DOMAIN loc[t].before[LoaderCache(log[t][k].ev)]

\* CreateDGSLEffect built an effect of a new name from a texture and a shader
\* that were cached, and called no loader
C9_Witness ==
    \E t \in Threads :
        /\ ReturnedNew(t) /\ call[t].op = "CreateDGSLEffect"
        /\ call[t].info.texture \in DOMAIN loc[t].before[2]
        /\ call[t].info.pixelShader \in DOMAIN loc[t].before[3]
        /\ \E k \in 1..Len(log[t]) : log[t][k].ev = "CreatePixelShader"
        /\ LoaderCalls(t) = {}

(***************************************************************************)
(* Factories and devices.                                                  *)
(***************************************************************************)
Live == {f \in Factories : pImpl[f] # 0}
DeviceOf(f) == device[pImpl[f]]
Cached(i) ==
    Values(mEffectCache[i]) \cup Values(mTextureCache[i]) \cup Values(mShaderCache[i])

\* C4: the factories that live on one device have one Impl, and those on
\* different devices have different ones; so a Create call returns the effect
\* first returned for the name on the device, whichever factory that was;
\* when ReleaseCache returns, the caches of every factory of the device are
\* empty; the factories of a device see one sharing switch and the same
\* caches; and no object is in the caches of two devices, nor returned
\* from the cache of a device the call's factory is not on.
C4_CacheKeyedByDevice ==
    /\ \A f \in Live : \A g \in Live : (DeviceOf(f) = DeviceOf(g)) <=> (pImpl[f] = pImpl[g])
    /\ \A f \in Live : instancePool[DeviceOf(f)] = pImpl[f]
    /\ \A t \in Threads :
          (/\ Returned(t) /\ call[t].op \in EffectOps /\ loc[t].shared
           /\ NonEmpty(AskedName(t))
           /\ AskedName(t) \in DOMAIN firstEffect[DeviceOf(call[t].f)])
          => result[t].obj = firstEffect[DeviceOf(call[t].f)][AskedName(t)].obj
    /\ \A t \in Threads :
          (Returned(t) /\ call[t].op = "ReleaseCache")
          => \A g \in Live :
                DeviceOf(g) = DeviceOf(call[t].f)
                => Caches(pImpl[g]) = <<EmptyMap, EmptyMap, EmptyMap>>
    /\ \A f \in Live : \A g \in Live :
          DeviceOf(f) = DeviceOf(g)
          => mSharing[pImpl[f]] = mSharing[pImpl[g]] /\ Caches(pImpl[f]) = Caches(pImpl[g])
    /\ \A i \in ImplIds : \A j \in ImplIds \ {i} : Cached(i) \cap Cached(j) = {}
    /\ \A t \in Threads : \A g \in Live :
          (Returned(t) /\ call[t].op \in CreateOps /\ DeviceOf(g) # DeviceOf(call[t].f))
          => result[t].obj \notin Cached(pImpl[g])

\* a call through one factory returned the effect that a call through the
\* other factory of the device had made, while a factory lives on the other
\* device
C4_Witness ==
    \E t \in Threads :
        /\ Returned(t) /\ call[t].op = "CreateEffect" /\ call[t].f = "f2"
        /\ pImpl["f1"] = pImpl["f2"]
        /\ AskedName(t) \in DOMAIN firstEffect[DeviceOf("f2")]
        /\ firstEffect[DeviceOf("f2")][AskedName(t)].f = "f1"
        /\ result[t].obj = firstEffect[DeviceOf("f2")][AskedName(t)].obj

(***************************************************************************)
(* The shader name table.                                                  *)
(***************************************************************************)
\* the part of p after its last '_', the whole of p when it has none
AfterLastUnderscore(p) ==
    LET n == CHOOSE n \in 0..Len(p) :
                 /\ n = 0 \/ p[n] = "_"
                 /\ \A k \in (n+1)..Len(p) : p[k] # "_"
    IN  SubSeq(p, n + 1, Len(p))

\* p cut at its first '.'
CutAtDot(p) ==
    LET n == CHOOSE n \in 0..Len(p) :
                 /\ n = Len(p) \/ p[n + 1] = "."
                 /\ \A k \in 1..n : p[k] # "."
    IN  SubSeq(p, 1, n)

TableRoot(p) == CutAtDot(AfterLastUnderscore(p))
Lower(p) == [k \in 1..Len(p) |-> towlower(p[k])]

\* the names the table gives the calls of CreatePixelShader
TableShaderCalls(p, featureLevel) ==
    IF ~NonEmpty(p) \/ Lower(TableRoot(p)) \in {Str_lambert, Str_phong, Str_unlit}
    THEN <<>>
    ELSE <<IF featureLevel < D3D_FEATURE_LEVEL_10_0
           THEN TableRoot(p) \o Str_cso ELSE p>>

\* the names of the calls of CreatePixelShader the call of thread t made
IsShaderCall(e) == e.ev = "CreatePixelShader"
ShaderCalls(t) ==
    LET evs == SelectSeq(log[t], IsShaderCall)
    IN  [k \in 1..Len(evs) |-> evs[k].name]

\* the effects the call of thread t made without a pixel shader of their own
IsPlainEffect(e) == e.ev = "make_shared<DGSLEffect>" /\ e.slot = 0
PlainEffects(t) == SelectSeq(log[t], IsPlainEffect)

\* the call of thread t is a CreateDGSLEffect that missed the cache and is
\* past the choice of the shader
PastTable(t) ==
    /\ call[t].op = "CreateDGSLEffect"
    /\ pc[t] \notin {"cd_find", "cd_test"}
    /\ Returned(t) => ReturnedNew(t)

TableHolds(t) ==
    LET names == TableShaderCalls(call[t].info.pixelShader,
                                  GetFeatureLevel(device[Impl(t)]))
    IN  /\ ShaderCalls(t) = names
        /\ Len(PlainEffects(t)) = (IF names = <<>> THEN 1 ELSE 0)

\* C5: a CreateDGSLEffect call that misses the cache goes on to build its
\* effect; with a pixelShader that is null or empty, or whose root (the part
\* after the last '_' cut at the first '.') is "lambert", "phong" or "unlit"
\* in any case, it builds it without a pixel shader of its own and does not
\* call CreatePixelShader; else it calls CreatePixelShader once, for the root
\* and ".cso" below feature level 10_0 and for pixelShader as given from
\* 10_0 on.
C5_ShaderTable ==
    \A t \in Threads :
        /\ call[t].op = "CreateDGSLEffect" => ~crashed
        /\ PastTable(t) => TableHolds(t)

\* the same for the names whose part after the last '_' is shorter than
\* MAX_PATH
C5_ShaderTableOfShortNames ==
    \A t \in Threads :
        (/\ call[t].op = "CreateDGSLEffect"
         /\ Len(AfterLastUnderscore(call[t].info.pixelShader)) < MAX_PATH)
        => /\ ~crashed
           /\ PastTable(t) => TableHolds(t)

(***************************************************************************)
(* Two threads.                                                            *)
(***************************************************************************)
\* C2: two calls of one Create function on one device for the same name that
\* is not empty, which ran with sharing enabled and no ReleaseCache since they
\* began, return the same object, and neither of them has made more than the
\* other returns.
C2_OneInstancePerName ==
    \A t \in Threads : \A u \in Threads \ {t} :
        (/\ Returned(t) /\ Returned(u)
         /\ call[t].op \in CreateOps /\ CacheIndex(t) = CacheIndex(u)
         /\ Impl(t) = Impl(u)
         /\ loc[t].shared /\ loc[u].shared
         /\ NonEmpty(AskedName(t)) /\ AskedName(t) = AskedName(u))
        => result[t].obj = result[u].obj

\* C3: a thread that is to find in a cache, to read or compare the iterator
\* it found, to insert into a cache or to clear the caches holds the mutex;
\* and no thread is to read a cache while another is to insert into it or to
\* clear it.
CachePcs ==
    {"ce_find", "ce_test", "ce_share", "ce_insert", "cd_find", "cd_test", "cd_share",
     "cd_insert", "ct_find", "ct_test", "ct_share", "ct_insert", "cp_find", "cp_test",
     "cp_share", "cp_insert", "rc_clear"}
CacheAt(p) ==
    CASE p \in {"ce_find", "ce_test", "ce_share", "cd_find", "cd_test", "cd_share"} -> "effect"
      [] p \in {"ct_find", "ct_test", "ct_share"} -> "texture"
      [] p \in {"cp_find", "cp_test", "cp_share"} -> "shader"
      [] OTHER -> "none"
C3_CachesGuarded ==
    \A t \in Threads :
        /\ pc[t] \in CachePcs => mutex[Impl(t)] = t
        /\ CacheAt(pc[t]) # "none" => ~Racing(t, Impl(t), CacheAt(pc[t]))

(***************************************************************************)
(* Loads that fail.                                                        *)
(***************************************************************************)
\* the loader calls of the call of thread t that failed
FailedLoads(t) == {k \in LoaderCalls(t) : log[t][k].obj = 0}

\* C11: when a loader fails, the call (CreateTexture, CreatePixelShader, or
\* the CreateEffect or CreateDGSLEffect that made it) throws there and then;
\* nothing is inserted under the name that failed to load, nor in the effect
\* cache, and the effect that was being built is destroyed; in a call that
\* ran with sharing enabled the name is not cached, so the next call for it
\* loads again.
C11_FailedLoadCachesNothing ==
    \A t \in Threads : \A k \in FailedLoads(t) :
        LET name == log[t][k].name
            before == loc[t].before[LoaderCache(log[t][k].ev)]
            now == Caches(Impl(t))[LoaderCache(log[t][k].ev)]
        IN  /\ k = Len(log[t])
            /\ Threw(t) /\ result[t].what = "HRESULT"
            /\ name \in DOMAIN now => name \in DOMAIN before /\ now[name] = before[name]
            /\ loc[t].shared => name \notin DOMAIN now
            /\ mEffectCache[Impl(t)] = loc[t].before[1]
            /\ \A o \in loc[t].made : objs[o].kind # "effect"

\* CreateDGSLEffect for a name threw because the load of its texture or
\* shader failed, after it had built the effect
C11_Witness ==
    \E t \in Threads :
        /\ Threw(t) /\ call[t].op = "CreateDGSLEffect" /\ loc[t].shared
        /\ NonEmpty(call[t].info.name)
        /\ FailedLoads(t) # {}
        /\ loc[t].made # {}

(***************************************************************************)
(* Reference counts.                                                       *)
(***************************************************************************)
\* how often o occurs in the sequence s
Occurrences(s, o) == Cardinality({k \in 1..Len(s) : s[k] = o})

\* the references to the texture or shader o that callers have: the handles
\* of the application, the output variable of a call that has just been
\* given o, and the effects that were given o
CallerRefs(o) ==
    objs[o].held
    + Cardinality({t \in Threads : out[t] = o})
    + SumOver([e \in 1..Len(objs) |-> Occurrences(objs[e].parts, o)], 1..Len(objs))

\* the references to o that the caches have
CacheRefs(o) ==
    Cardinality({i \in ImplIds : o \in Values(mTextureCache[i]) \cup Values(mShaderCache[i])})

\* C12: in every reachable state the reference count of every texture and
\* shader (0 once it is destroyed) is the number of references callers have
\* to it, plus one while a cache holds it.
C12_BalancedReferenceCounts ==
    \A o \in 1..Len(objs) :
        objs[o].kind # "effect" => objs[o].refs = CallerRefs(o) + CacheRefs(o)

\* the same in sequential use, where moreover a CreateTexture or
\* CreatePixelShader call that missed the cache with sharing enabled returns
\* its object with a count of 2, and a call that hit the cache with one more
\* than the callers had
C12_BalancedInSequentialUse ==
    /\ C12_BalancedReferenceCounts
    /\ \A t \in Threads :
          (/\ Returned(t) /\ call[t].op \in {"CreateTexture", "CreatePixelShader"}
           /\ ReturnedNew(t) /\ loc[t].shared /\ NonEmpty(AskedName(t)))
          => objs[result[t].obj].refs = 2
    /\ \A t \in Threads :
          (/\ Returned(t) /\ call[t].op \in {"CreateTexture", "CreatePixelShader"}
           /\ ~ReturnedNew(t))
          => objs[result[t].obj].refs = CallerRefs(result[t].obj) + 1

\* CreateTexture hit the cache for a texture the application holds a handle
\* to: the count is 3
C12_SequentialHit ==
    \E t \in Threads :
        /\ Returned(t) /\ call[t].op = "CreateTexture" /\ ~ReturnedNew(t)
        /\ objs[result[t].obj].held = 1
        /\ objs[result[t].obj].refs = 3

(***************************************************************************)
(* The settings of the effect CreateDGSLEffect builds.                     *)
(***************************************************************************)
\* the call of thread t made the call ev on a collaborator
Has(t, ev) == \E k \in 1..Len(log[t]) : log[t][k].ev = ev

\* the root of pixelShader is r, in any case
RootIs(p, r) == NonEmpty(p) /\ Lower(TableRoot(p)) = r

AnyNonZero(c) == \E k \in 1..3 : c[k] # 0

\* C13: the effect a CreateDGSLEffect call builds on a cache miss has default
\* lighting enabled unless the shader root is "unlit"; has the specular
\* colour and power set when the root is not "lambert" and a component of
\* info.specularColor is not zero, and DisableSpecular called otherwise; and
\* has the emissive colour set exactly when a component of
\* info.emissiveColor is not zero.
C13_LightingAndSpecular ==
    \A t \in Threads :
        (/\ call[t].op = "CreateDGSLEffect" /\ pc[t] # "cd_test"
         /\ Has(t, "make_shared<DGSLEffect>"))
        => LET info == call[t].info
               lit == ~RootIs(info.pixelShader, Str_unlit)
               specular == ~RootIs(info.pixelShader, Str_lambert)
                               /\ AnyNonZero(info.specularColor)
           IN  /\ Has(t, "EnableDefaultLighting") <=> lit
               /\ Has(t, "SetLightingEnabled") <=> lit
               /\ Has(t, "SetSpecularColor") <=> specular
               /\ Has(t, "SetSpecularPower") <=> specular
               /\ Has(t, "DisableSpecular") <=> ~specular
               /\ Has(t, "SetEmissiveColor") <=> AnyNonZero(info.emissiveColor)

\* an effect was built for "lambert" and a specular colour that is not zero
C13_Witness ==
    \E t \in Threads :
        /\ Returned(t) /\ call[t].op = "CreateDGSLEffect"
        /\ call[t].info.pixelShader = Str_lambert
        /\ AnyNonZero(call[t].info.specularColor)
        /\ Has(t, "DisableSpecular")

(***************************************************************************)
(* The texture slots of the effect CreateDGSLEffect builds.                *)
(***************************************************************************)
\* the slots the texture names of info go to, with their names: slot 0 for
\* info.texture, slot j+1 for info.textures[j] (textures[j] of the source is
\* element j+1 of the sequence)
SlotsOf(info) ==
    {<<0, info.texture>> : x \in {y \in {0} : NonEmpty(info.texture)}}
    \cup {<<j + 1, info.textures[j + 1]>> :
             j \in {y \in 0..(NumTextures - 1) : NonEmpty(info.textures[y + 1])}}

\* the events ev of the call of thread t
Events(t, ev) == {k \in 1..Len(log[t]) : log[t][k].ev = ev}

LockPcs == {"ce_lock", "cd_lock", "ct_wiclock", "ct_lock", "cp_lock", "rc_lock"}

\* the places where a thread holds the mutex
HeldPcs == {"ce_insert", "cd_insert", "ct_wicctx", "ct_insert", "cp_insert", "rc_clear"}

\* C14: every call that has begun returns or throws.
C14_EveryCallEnds == \A t \in Threads : (pc[t] # "idle") ~> Done(t)

\* The mutex discipline of C14: a thread holds the mutex exactly in the
\* places between a lock and the end of its block, so it never locks the
\* mutex it holds, and the mutex is held by nobody else.
C14_MutexNotReacquired ==
    \A t \in Threads :
        /\ pc[t] \in HeldPcs <=> (pc[t] # "idle" /\ mutex[Impl(t)] = t)
        /\ pc[t] \in LockPcs => mutex[Impl(t)] # t

\* a thread waits for the mutex that the other holds for its WIC load
C14_Waiting ==
    \E t, u \in Threads :
        pc[t] = "ct_lock" /\ pc[u] = "ct_wicctx" /\ mutex[Impl(t)] = u

\* What is left of C14 when the process can die of the unlocked reads:
\* every call that has begun returns or throws unless the process crashes.
C14_EveryCallEndsOrCrashes ==
    \A t \in Threads : (pc[t] # "idle") ~> (Done(t) \/ crashed)

=============================================================================
